---- MODULE Spec2Model ----
(***************************************************************************)
(* VidTube backend (src/app.py): a relational store of channels, videos    *)
(* and users, the sample-data seeder, the derived-field formatters and the *)
(* HTTP handlers, as a state machine.                                      *)
(*                                                                         *)
(*   Spec      requests handled one after another (each handler atomic)    *)
(*   SpecConc  fetch / like requests of several workers interleaved at     *)
(*             their database statements (SELECT, UPDATE+COMMIT, reload)   *)
(*   SpecFmt   format_time_ago applied to bounded ages                     *)
(*                                                                         *)
(* Time is counted in whole seconds.  A request's text parameter is a      *)
(* sequence of one-character strings; Chars gives the characters of a      *)
(* stored text.                                                            *)
(***************************************************************************)
EXTENDS Integers, Sequences, FiniteSets, TLC

VARIABLES
  channels,   \* table channel: id -> row
  videos,     \* table video:   id -> row
  users,      \* table user:    id -> row
  now,        \* datetime.utcnow(), in seconds
  pc,         \* "boot": before init_sample_data(); "serving": inside app.run()
  resp,       \* the response of the last request handled
  nticks,     \* number of clock advances so far
  view_done,  \* id -> number of fetches of id that returned 200
  like_done,  \* id -> number of likes of id that returned 200
  sess,       \* worker -> its request's position and SQLAlchemy session (SpecConc)
  created_in, \* SpecFmt: the created_at handed to format_time_ago
  time_out    \* SpecFmt: what format_time_ago returned

vars == <<channels, videos, users, now, pc, resp, nticks, view_done, like_done,
          sess, created_in, time_out>>

-----------------------------------------------------------------------------
(* Bounds of the model *)

\* write requests (fetch or like of an existing video) begun in one behaviour
MaxWrites == 2

\* clock advances in one behaviour
MaxTicks == 2

\* concurrent request workers (SpecConc)
NumWorkers == 2

\* write requests begun in one behaviour of SpecConc
MaxConcWrites == 3

\* SpecFmt: ages of 0 .. MaxAgeDays whole days, plus a part of a day
MaxAgeDays == 800

\* the ids the fetch and like requests name: 0 and 13 match no seeded video
RequestIds == {0, 2, 5, 13}

\* SpecFmt: the part of a day added to an age
AgeSeconds == {0, 1, 59, 60, 61, 90, 119, 120, 3599, 3600, 3601, 7199, 7200, 7201, 86399}

Day == 24 * 60 * 60

\* the steps the clock advances by
TickSteps == {4 * Day}

-----------------------------------------------------------------------------
(* Text *)


\* the printable ASCII characters, code points 32 .. 126 (a TLA+ string cannot hold the
\* grave accent, code point 96, written "grave" here)
Ascii ==
  <<" ","!","\"","#","$","%","&","'","(",")","*","+",",","-",".","/","0","1","2",
    "3","4","5","6","7","8","9",":",";","<","=",">","?","@","A","B","C","D","E","F",
    "G","H","I","J","K","L","M","N","O","P","Q","R","S","T","U","V","W","X","Y","Z",
    "[","\\","]","^","_","grave","a","b","c","d","e","f","g","h","i","j","k","l","m",
    "n","o","p","q","r","s","t","u","v","w","x","y","z","{","|","}","~">>

\* ord(c)
CodeOf ==
  [c \in {Ascii[i] : i \in 1..Len(Ascii)} |->
     31 + (CHOOSE i \in 1..Len(Ascii) : Ascii[i] = c)]

\* str.lower() / SQL lower() of one character: "A" .. "Z" become "a" .. "z"
LowerOf ==
  [c \in DOMAIN CodeOf |-> IF CodeOf[c] \in 65..90 THEN Ascii[CodeOf[c] + 32 - 31] ELSE c]

LowerChar(c) == LowerOf[c]

\* str.lower()
RECURSIVE Lower(_)
Lower(s) == IF s = <<>> THEN <<>> ELSE <<LowerChar(s[1])>> \o Lower(Tail(s))

\* lower(text) LIKE lower(pat), matching text[i..] against pat[j..]:
\* "%" matches any run of characters, "_" any one character
RECURSIVE LikeFrom(_, _, _, _)
LikeFrom(text, i, pat, j) ==
  IF j > Len(pat) THEN i > Len(text)
  ELSE IF pat[j] = "%" THEN \E k \in i..(Len(text) + 1) : LikeFrom(text, k, pat, j + 1)
  ELSE IF i > Len(text) THEN FALSE
  ELSE IF pat[j] = "_" \/ LowerChar(pat[j]) = LowerChar(text[i])
    THEN LikeFrom(text, i + 1, pat, j + 1)
  ELSE FALSE

\* column.ilike(f'%{term}%').  A term without wildcards matches where it occurs in the
\* text, which is what LikeFrom computes for it, found here without the recursion.
ILikeContains(text, term) ==
  IF \A j \in 1..Len(term) : term[j] \notin {"%", "_"}
    THEN LET lterm == Lower(term)
         IN  \E i \in 0..(Len(text) - Len(term)) :
               \A j \in 1..Len(term) : LowerChar(text[i + j]) = lterm[j]
    ELSE LikeFrom(text, 1, <<"%">> \o term \o <<"%">>, 1)

-----------------------------------------------------------------------------
(* Sample data *)

\* channels_data
channels_data ==
  <<
    [name |-> "Nature Explorer", subscribers |-> 2300000],
    [name |-> "CodeMaster", subscribers |-> 856000],
    [name |-> "Gaming Pro", subscribers |-> 1800000],
    [name |-> "Culinary Arts", subscribers |-> 654000],
    [name |-> "Tech News Daily", subscribers |-> 3100000],
    [name |-> "Peaceful Sounds", subscribers |-> 4200000],
    [name |-> "Space Science", subscribers |-> 1500000],
    [name |-> "Pet Comedy", subscribers |-> 5700000],
    [name |-> "Fitness Plus", subscribers |-> 923000],
    [name |-> "Adventure Seeker", subscribers |-> 678000],
    [name |-> "Future Tech", subscribers |-> 2800000],
    [name |-> "Urban Artist", subscribers |-> 445000]
  >>

\* videos_data
videos_data ==
  <<
    [title |-> "Amazing Nature Documentary: Wildlife in 4K",
     description |-> "Explore the stunning wildlife of our planet in breathtaking 4K resolution.",
     duration |-> "15:42", views |-> 2300000, likes |-> 45000, category |-> "Nature",
     days_ago |-> 3, thumbnail_id |-> 1],
    [title |-> "Top 10 JavaScript Tips Every Developer Should Know",
     description |-> "Essential JavaScript tips that will make you a better developer.",
     duration |-> "12:15", views |-> 856000, likes |-> 23000, category |-> "Technology",
     days_ago |-> 7, thumbnail_id |-> 2],
    [title |-> "Epic Gaming Montage - Best Moments 2025",
     description |-> "The most epic gaming moments from this year compiled into one amazing video.",
     duration |-> "8:33", views |-> 1800000, likes |-> 67000, category |-> "Gaming",
     days_ago |-> 2, thumbnail_id |-> 3],
    [title |-> "Cooking the Perfect Pasta: Italian Chef's Secret",
     description |-> "Learn the authentic Italian way to cook pasta from a master chef.",
     duration |-> "18:22", views |-> 654000, likes |-> 18000, category |-> "Food",
     days_ago |-> 5, thumbnail_id |-> 4],
    [title |-> "Breaking: Latest Technology Trends 2025",
     description |-> "Stay updated with the latest technology trends shaping our future.",
     duration |-> "22:17", views |-> 3100000, likes |-> 89000, category |-> "Technology",
     days_ago |-> 0, thumbnail_id |-> 5],
    [title |-> "Relaxing Music for Study and Work - 2 Hours",
     description |-> "Perfect background music for productivity and focus.",
     duration |-> "2:15:33", views |-> 4200000, likes |-> 125000, category |-> "Music",
     days_ago |-> 30, thumbnail_id |-> 6],
    [title |-> "Space Exploration: Mars Mission Updates",
     description |-> "Latest updates from the Mars exploration missions.",
     duration |-> "25:48", views |-> 1500000, likes |-> 42000, category |-> "Science",
     days_ago |-> 4, thumbnail_id |-> 7],
    [title |-> "Funny Cat Compilation - Try Not to Laugh",
     description |-> "The funniest cat videos that will make your day better.",
     duration |-> "10:05", views |-> 5700000, likes |-> 234000, category |-> "Entertainment",
     days_ago |-> 14, thumbnail_id |-> 8],
    [title |-> "Workout at Home: 30 Minute Full Body",
     description |-> "Complete full-body workout you can do at home with no equipment.",
     duration |-> "31:42", views |-> 923000, likes |-> 31000, category |-> "Fitness",
     days_ago |-> 7, thumbnail_id |-> 9],
    [title |-> "Travel Vlog: Hidden Gems in Nepal",
     description |-> "Discover the most beautiful hidden places in Nepal.",
     duration |-> "16:28", views |-> 678000, likes |-> 19000, category |-> "Travel",
     days_ago |-> 21, thumbnail_id |-> 10],
    [title |-> "AI Revolution: What's Coming Next?",
     description |-> "Exploring the future of artificial intelligence and its impact.",
     duration |-> "19:13", views |-> 2800000, likes |-> 76000, category |-> "Technology",
     days_ago |-> 1, thumbnail_id |-> 11],
    [title |-> "Street Art Time-lapse: Creating a Masterpiece",
     description |-> "Watch an incredible street art piece come to life in time-lapse.",
     duration |-> "7:52", views |-> 445000, likes |-> 15000, category |-> "Art",
     days_ago |-> 5, thumbnail_id |-> 12]
  >>

\* The characters of each text of the sample data: a TLA+ string is opaque, and LIKE and
\* sorted() read a text character by character.
Chars ==
     ("Nature Explorer" :>
     <<"N","a","t","u","r","e"," ","E","x","p","l","o","r","e","r">>)
  @@ ("CodeMaster" :>
     <<"C","o","d","e","M","a","s","t","e","r">>)
  @@ ("Gaming Pro" :>
     <<"G","a","m","i","n","g"," ","P","r","o">>)
  @@ ("Culinary Arts" :>
     <<"C","u","l","i","n","a","r","y"," ","A","r","t","s">>)
  @@ ("Tech News Daily" :>
     <<"T","e","c","h"," ","N","e","w","s"," ","D","a","i","l","y">>)
  @@ ("Peaceful Sounds" :>
     <<"P","e","a","c","e","f","u","l"," ","S","o","u","n","d","s">>)
  @@ ("Space Science" :>
     <<"S","p","a","c","e"," ","S","c","i","e","n","c","e">>)
  @@ ("Pet Comedy" :>
     <<"P","e","t"," ","C","o","m","e","d","y">>)
  @@ ("Fitness Plus" :>
     <<"F","i","t","n","e","s","s"," ","P","l","u","s">>)
  @@ ("Adventure Seeker" :>
     <<"A","d","v","e","n","t","u","r","e"," ","S","e","e","k","e","r">>)
  @@ ("Future Tech" :>
     <<"F","u","t","u","r","e"," ","T","e","c","h">>)
  @@ ("Urban Artist" :>
     <<"U","r","b","a","n"," ","A","r","t","i","s","t">>)
  @@ ("Amazing Nature Documentary: Wildlife in 4K" :>
     <<"A","m","a","z","i","n","g"," ","N","a","t","u","r","e"," ","D","o","c","u","m","e",
       "n","t","a","r","y",":"," ","W","i","l","d","l","i","f","e"," ","i","n"," ","4","K">>)
  @@ ("Explore the stunning wildlife of our planet in breathtaking 4K resolution." :>
     <<"E","x","p","l","o","r","e"," ","t","h","e"," ","s","t","u","n","n","i","n","g"," ",
       "w","i","l","d","l","i","f","e"," ","o","f"," ","o","u","r"," ","p","l","a","n","e",
       "t"," ","i","n"," ","b","r","e","a","t","h","t","a","k","i","n","g"," ","4","K"," ",
       "r","e","s","o","l","u","t","i","o","n",".">>)
  @@ ("Nature" :>
     <<"N","a","t","u","r","e">>)
  @@ ("Top 10 JavaScript Tips Every Developer Should Know" :>
     <<"T","o","p"," ","1","0"," ","J","a","v","a","S","c","r","i","p","t"," ","T","i","p",
       "s"," ","E","v","e","r","y"," ","D","e","v","e","l","o","p","e","r"," ","S","h","o",
       "u","l","d"," ","K","n","o","w">>)
  @@ ("Essential JavaScript tips that will make you a better developer." :>
     <<"E","s","s","e","n","t","i","a","l"," ","J","a","v","a","S","c","r","i","p","t"," ",
       "t","i","p","s"," ","t","h","a","t"," ","w","i","l","l"," ","m","a","k","e"," ","y",
       "o","u"," ","a"," ","b","e","t","t","e","r"," ","d","e","v","e","l","o","p","e","r",
       ".">>)
  @@ ("Technology" :>
     <<"T","e","c","h","n","o","l","o","g","y">>)
  @@ ("Epic Gaming Montage - Best Moments 2025" :>
     <<"E","p","i","c"," ","G","a","m","i","n","g"," ","M","o","n","t","a","g","e"," ","-",
       " ","B","e","s","t"," ","M","o","m","e","n","t","s"," ","2","0","2","5">>)
  @@ ("The most epic gaming moments from this year compiled into one amazing video." :>
     <<"T","h","e"," ","m","o","s","t"," ","e","p","i","c"," ","g","a","m","i","n","g"," ",
       "m","o","m","e","n","t","s"," ","f","r","o","m"," ","t","h","i","s"," ","y","e","a",
       "r"," ","c","o","m","p","i","l","e","d"," ","i","n","t","o"," ","o","n","e"," ","a",
       "m","a","z","i","n","g"," ","v","i","d","e","o",".">>)
  @@ ("Gaming" :>
     <<"G","a","m","i","n","g">>)
  @@ ("Cooking the Perfect Pasta: Italian Chef's Secret" :>
     <<"C","o","o","k","i","n","g"," ","t","h","e"," ","P","e","r","f","e","c","t"," ","P",
       "a","s","t","a",":"," ","I","t","a","l","i","a","n"," ","C","h","e","f","'","s"," ",
       "S","e","c","r","e","t">>)
  @@ ("Learn the authentic Italian way to cook pasta from a master chef." :>
     <<"L","e","a","r","n"," ","t","h","e"," ","a","u","t","h","e","n","t","i","c"," ","I",
       "t","a","l","i","a","n"," ","w","a","y"," ","t","o"," ","c","o","o","k"," ","p","a",
       "s","t","a"," ","f","r","o","m"," ","a"," ","m","a","s","t","e","r"," ","c","h","e",
       "f",".">>)
  @@ ("Food" :>
     <<"F","o","o","d">>)
  @@ ("Breaking: Latest Technology Trends 2025" :>
     <<"B","r","e","a","k","i","n","g",":"," ","L","a","t","e","s","t"," ","T","e","c","h",
       "n","o","l","o","g","y"," ","T","r","e","n","d","s"," ","2","0","2","5">>)
  @@ ("Stay updated with the latest technology trends shaping our future." :>
     <<"S","t","a","y"," ","u","p","d","a","t","e","d"," ","w","i","t","h"," ","t","h","e",
       " ","l","a","t","e","s","t"," ","t","e","c","h","n","o","l","o","g","y"," ","t","r",
       "e","n","d","s"," ","s","h","a","p","i","n","g"," ","o","u","r"," ","f","u","t","u",
       "r","e",".">>)
  @@ ("Relaxing Music for Study and Work - 2 Hours" :>
     <<"R","e","l","a","x","i","n","g"," ","M","u","s","i","c"," ","f","o","r"," ","S","t",
       "u","d","y"," ","a","n","d"," ","W","o","r","k"," ","-"," ","2"," ","H","o","u","r",
       "s">>)
  @@ ("Perfect background music for productivity and focus." :>
     <<"P","e","r","f","e","c","t"," ","b","a","c","k","g","r","o","u","n","d"," ","m","u",
       "s","i","c"," ","f","o","r"," ","p","r","o","d","u","c","t","i","v","i","t","y"," ",
       "a","n","d"," ","f","o","c","u","s",".">>)
  @@ ("Music" :>
     <<"M","u","s","i","c">>)
  @@ ("Space Exploration: Mars Mission Updates" :>
     <<"S","p","a","c","e"," ","E","x","p","l","o","r","a","t","i","o","n",":"," ","M","a",
       "r","s"," ","M","i","s","s","i","o","n"," ","U","p","d","a","t","e","s">>)
  @@ ("Latest updates from the Mars exploration missions." :>
     <<"L","a","t","e","s","t"," ","u","p","d","a","t","e","s"," ","f","r","o","m"," ","t",
       "h","e"," ","M","a","r","s"," ","e","x","p","l","o","r","a","t","i","o","n"," ","m",
       "i","s","s","i","o","n","s",".">>)
  @@ ("Science" :>
     <<"S","c","i","e","n","c","e">>)
  @@ ("Funny Cat Compilation - Try Not to Laugh" :>
     <<"F","u","n","n","y"," ","C","a","t"," ","C","o","m","p","i","l","a","t","i","o","n",
       " ","-"," ","T","r","y"," ","N","o","t"," ","t","o"," ","L","a","u","g","h">>)
  @@ ("The funniest cat videos that will make your day better." :>
     <<"T","h","e"," ","f","u","n","n","i","e","s","t"," ","c","a","t"," ","v","i","d","e",
       "o","s"," ","t","h","a","t"," ","w","i","l","l"," ","m","a","k","e"," ","y","o","u",
       "r"," ","d","a","y"," ","b","e","t","t","e","r",".">>)
  @@ ("Entertainment" :>
     <<"E","n","t","e","r","t","a","i","n","m","e","n","t">>)
  @@ ("Workout at Home: 30 Minute Full Body" :>
     <<"W","o","r","k","o","u","t"," ","a","t"," ","H","o","m","e",":"," ","3","0"," ","M",
       "i","n","u","t","e"," ","F","u","l","l"," ","B","o","d","y">>)
  @@ ("Complete full-body workout you can do at home with no equipment." :>
     <<"C","o","m","p","l","e","t","e"," ","f","u","l","l","-","b","o","d","y"," ","w","o",
       "r","k","o","u","t"," ","y","o","u"," ","c","a","n"," ","d","o"," ","a","t"," ","h",
       "o","m","e"," ","w","i","t","h"," ","n","o"," ","e","q","u","i","p","m","e","n","t",
       ".">>)
  @@ ("Fitness" :>
     <<"F","i","t","n","e","s","s">>)
  @@ ("Travel Vlog: Hidden Gems in Nepal" :>
     <<"T","r","a","v","e","l"," ","V","l","o","g",":"," ","H","i","d","d","e","n"," ","G",
       "e","m","s"," ","i","n"," ","N","e","p","a","l">>)
  @@ ("Discover the most beautiful hidden places in Nepal." :>
     <<"D","i","s","c","o","v","e","r"," ","t","h","e"," ","m","o","s","t"," ","b","e","a",
       "u","t","i","f","u","l"," ","h","i","d","d","e","n"," ","p","l","a","c","e","s"," ",
       "i","n"," ","N","e","p","a","l",".">>)
  @@ ("Travel" :>
     <<"T","r","a","v","e","l">>)
  @@ ("AI Revolution: What's Coming Next?" :>
     <<"A","I"," ","R","e","v","o","l","u","t","i","o","n",":"," ","W","h","a","t","'","s",
       " ","C","o","m","i","n","g"," ","N","e","x","t","?">>)
  @@ ("Exploring the future of artificial intelligence and its impact." :>
     <<"E","x","p","l","o","r","i","n","g"," ","t","h","e"," ","f","u","t","u","r","e"," ",
       "o","f"," ","a","r","t","i","f","i","c","i","a","l"," ","i","n","t","e","l","l","i",
       "g","e","n","c","e"," ","a","n","d"," ","i","t","s"," ","i","m","p","a","c","t",".">>)
  @@ ("Street Art Time-lapse: Creating a Masterpiece" :>
     <<"S","t","r","e","e","t"," ","A","r","t"," ","T","i","m","e","-","l","a","p","s","e",
       ":"," ","C","r","e","a","t","i","n","g"," ","a"," ","M","a","s","t","e","r","p","i",
       "e","c","e">>)
  @@ ("Watch an incredible street art piece come to life in time-lapse." :>
     <<"W","a","t","c","h"," ","a","n"," ","i","n","c","r","e","d","i","b","l","e"," ","s",
       "t","r","e","e","t"," ","a","r","t"," ","p","i","e","c","e"," ","c","o","m","e"," ",
       "t","o"," ","l","i","f","e"," ","i","n"," ","t","i","m","e","-","l","a","p","s","e",
       ".">>)
  @@ ("Art" :>
     <<"A","r","t">>)

NumChannels == Len(channels_data)
NumVideos == Len(videos_data)

-----------------------------------------------------------------------------
(* Utility functions *)

\* round(n / d) to the nearest integer, a tie going to the even one (Python's format of
\* a float).  With d = 100000 a tie is a value x.x5, whose nearest double is exactly
\* x.x5 only for x.25 and x.75; no counter reachable from the sample data is such a tie.
RoundHalfEven(n, d) ==
  LET q == n \div d
      r == n % d
  IN  IF 2 * r > d \/ (2 * r = d /\ q % 2 = 1) THEN q + 1 ELSE q

\* format_views(views)
format_views(views) ==
  IF views >= 1000000
    THEN LET tenths == RoundHalfEven(views, 100000)
         IN  ToString(tenths \div 10) \o "." \o ToString(tenths % 10) \o "M"
  ELSE IF views >= 1000
    THEN ToString(RoundHalfEven(views, 1000)) \o "K"
  ELSE ToString(views)

\* f"{n} unit{'s' if n > 1 else ''} ago"
Ago(n, unit) == ToString(n) \o " " \o unit \o (IF n > 1 THEN "s" ELSE "") \o " ago"

\* format_time_ago with the hour and the minute thresholds inclusive
format_time_ago_inclusive(created_at, nowv) ==
  LET diff    == nowv - created_at
      days    == diff \div Day
      seconds == diff % Day
  IN  IF days > 365 THEN Ago(days \div 365, "year")
      ELSE IF days > 30 THEN Ago(days \div 30, "month")
      ELSE IF days > 7 THEN Ago(days \div 7, "week")
      ELSE IF days > 0 THEN Ago(days, "day")
      ELSE IF seconds >= 3600 THEN Ago(seconds \div 3600, "hour")
      ELSE IF seconds >= 60 THEN Ago(seconds \div 60, "minute")
      ELSE "Just now"

\* format_time_ago(created_at), with datetime.utcnow() = nowv.  A timedelta is
\* normalised to days (floor) and 0 <= seconds < 86400.
format_time_ago(created_at, nowv) ==
  LET diff    == nowv - created_at
      days    == diff \div Day
      seconds == diff % Day
  IN  IF days > 365 THEN Ago(days \div 365, "year")
      ELSE IF days > 30 THEN Ago(days \div 30, "month")
      ELSE IF days > 7 THEN Ago(days \div 7, "week")
      ELSE IF days > 0 THEN Ago(days, "day")
      ELSE IF seconds > 3600 THEN Ago(seconds \div 3600, "hour")
      ELSE IF seconds > 60 THEN Ago(seconds \div 60, "minute")
      ELSE "Just now"

-----------------------------------------------------------------------------
(* Models *)

\* Channel(name, avatar_url, subscribers), created_at defaulting to utcnow()
ChannelRow(i, nowv) ==
  [id          |-> i,
   name        |-> channels_data[i].name,
   avatar_url  |-> "https://picsum.photos/50/50?random=" \o ToString(100 + (i - 1)),
   subscribers |-> channels_data[i].subscribers,
   created_at  |-> nowv]

\* Video(...) of the seeder; dislikes defaults to 0; i is the 1-based row, enumerate's i + 1
VideoRow(i, nowv) ==
  [id            |-> i,
   title         |-> videos_data[i].title,
   description   |-> videos_data[i].description,
   thumbnail_url |-> "https://picsum.photos/640/360?random="
                       \o ToString(videos_data[i].thumbnail_id),
   video_url     |-> "/api/videos/" \o ToString(i) \o "/stream",
   duration      |-> videos_data[i].duration,
   views         |-> videos_data[i].views,
   likes         |-> videos_data[i].likes,
   dislikes      |-> 0,
   category      |-> videos_data[i].category,
   channel_id    |-> i,
   created_at    |-> nowv - videos_data[i].days_ago * Day]

\* Channel.videos: the videos whose channel_id is the channel's id
ChannelVideos(c) == {v \in DOMAIN videos : videos[v].channel_id = c}

\* Channel.to_dict
ChannelDict(c) ==
  [id                    |-> channels[c].id,
   name                  |-> channels[c].name,
   avatar_url            |-> channels[c].avatar_url,
   subscribers           |-> channels[c].subscribers,
   subscribers_formatted |-> format_views(channels[c].subscribers),
   video_count           |-> Cardinality(ChannelVideos(c))]

\* Video.to_dict of a row, read from the tables vs and cs at time nowv
VideoDictOf(vs, cs, v, nowv) ==
  [id              |-> vs[v].id,
   title           |-> vs[v].title,
   description     |-> vs[v].description,
   thumbnail_url   |-> vs[v].thumbnail_url,
   video_url       |-> vs[v].video_url,
   duration        |-> vs[v].duration,
   views           |-> vs[v].views,
   views_formatted |-> format_views(vs[v].views),
   likes           |-> vs[v].likes,
   dislikes        |-> vs[v].dislikes,
   category        |-> vs[v].category,
   time_ago        |-> format_time_ago(vs[v].created_at, nowv),
   channel         |-> [id          |-> cs[vs[v].channel_id].id,
                        name        |-> cs[vs[v].channel_id].name,
                        avatar_url  |-> cs[vs[v].channel_id].avatar_url,
                        subscribers |-> cs[vs[v].channel_id].subscribers]]

VideoDict(v) == VideoDictOf(videos, channels, v, now)

\* [video.to_dict() for video in rows]
VideoDicts(rows) == [k \in 1..Len(rows) |-> VideoDict(rows[k])]

-----------------------------------------------------------------------------
(* Queries *)

Min(a, b) == IF a < b THEN a ELSE b

\* query.order_by(column.desc()): the rows of S, larger key first.  SQL leaves the order
\* of rows with equal keys open, so this is the set of the orders it may return.
RECURSIVE OrderByDesc(_, _)
OrderByDesc(S, key) ==
  IF S = {} THEN {<<>>}
  ELSE LET top == {v \in S : \A w \in S : key[w] <= key[v]}
       IN  UNION {{<<v>> \o rest : rest \in OrderByDesc(S \ {v}, key)} : v \in top}

created_at_of == [v \in DOMAIN videos |-> videos[v].created_at]
views_of == [v \in DOMAIN videos |-> videos[v].views]

\* paginate with the page counted from 0: OFFSET page * per_page
PaginateFromZero(ordered, page, per_page) ==
  LET p     == IF page < 1 THEN 1 ELSE page
      pp    == IF per_page < 1 THEN 20 ELSE per_page
      total == Len(ordered)
      pages == IF total = 0 THEN 0 ELSE (total + pp - 1) \div pp
      first == p * pp + 1
  IN  [items    |-> IF first > total THEN <<>>
                    ELSE SubSeq(ordered, first, IF (p + 1) * pp < total THEN (p + 1) * pp
                                                                         ELSE total),
       total    |-> total,
       pages    |-> pages,
       page     |-> p,
       has_next |-> p < pages,
       has_prev |-> p > 1]

\* query.paginate(page=page, per_page=per_page, error_out=False) over the ordered rows:
\* with error_out=False a page < 1 becomes 1 and a per_page < 1 becomes 20; the items are
\* LIMIT per_page OFFSET (page - 1) * per_page; pages is ceil(total / per_page), 0 if empty.
Paginate(ordered, page, per_page) ==
  LET p     == IF page < 1 THEN 1 ELSE page
      pp    == IF per_page < 1 THEN 20 ELSE per_page
      total == Len(ordered)
      pages == IF total = 0 THEN 0 ELSE (total + pp - 1) \div pp
      first == (p - 1) * pp + 1
  IN  [items    |-> IF first > total THEN <<>> ELSE SubSeq(ordered, first, Min(p * pp, total)),
       total    |-> total,
       pages    |-> pages,
       page     |-> p,
       has_next |-> p < pages,
       has_prev |-> p > 1]

\* the filters of get_videos: the ids of the videos the query keeps
ListFilter(category, search) ==
  {v \in DOMAIN videos :
     /\ (category # <<>> /\ Lower(category) # <<"a","l","l">>)
          => ILikeContains(Chars[videos[v].category], category)
     /\ search # <<>>
          => \/ ILikeContains(Chars[videos[v].title], search)
             \/ ILikeContains(Chars[videos[v].description], search)}

\* get_trending's filter with a window of 30 days
TrendingFilterMonth(nowv) ==
  LET month_ago == nowv - 30 * Day
  IN  {v \in DOMAIN videos : videos[v].created_at >= month_ago}

\* the filter of get_trending: created within the 7 days before nowv
TrendingFilter(nowv) ==
  LET week_ago == nowv - 7 * Day
  IN  {v \in DOMAIN videos : videos[v].created_at >= week_ago}

\* .limit(n)
Limit(rows, n) == SubSeq(rows, 1, Min(n, Len(rows)))

Whitespace == {" ", "\t", "\n", "\r"}

\* str.strip()
RECURSIVE Strip(_)
Strip(s) ==
  IF s = <<>> THEN s
  ELSE IF s[1] \in Whitespace THEN Strip(Tail(s))
  ELSE IF s[Len(s)] \in Whitespace THEN Strip(SubSeq(s, 1, Len(s) - 1))
  ELSE s

\* the filter of search_videos
SearchFilter(query) ==
  {v \in DOMAIN videos :
     \/ ILikeContains(Chars[videos[v].title], query)
     \/ ILikeContains(Chars[videos[v].description], query)
     \/ ILikeContains(Chars[channels[videos[v].channel_id].name], query)}

\* a < b for the characters of two str
RECURSIVE StrLess(_, _)
StrLess(a, b) ==
  IF b = <<>> THEN FALSE
  ELSE IF a = <<>> THEN TRUE
  ELSE IF a[1] = b[1] THEN StrLess(Tail(a), Tail(b))
  ELSE CodeOf[a[1]] < CodeOf[b[1]]

\* sorted(list of distinct str)
RECURSIVE Sorted(_)
Sorted(S) ==
  IF S = {} THEN <<>>
  ELSE LET m == CHOOSE x \in S : \A y \in S \ {x} : StrLess(Chars[x], Chars[y])
       IN  <<m>> \o Sorted(S \ {m})

\* db.func.sum(column) ... or 0
RECURSIVE SumOver(_, _)
SumOver(S, f) ==
  IF S = {} THEN 0
  ELSE LET v == CHOOSE x \in S : TRUE IN f[v] + SumOver(S \ {v}, f)

likes_of == [v \in DOMAIN videos |-> videos[v].likes]

-----------------------------------------------------------------------------
(* The process and the clock *)

VideoIds == 1..NumVideos
Workers == 1..NumWorkers

NoResponse == [op |-> "none", args |-> <<>>, status |-> 0, body |-> <<>>]
Response(op, args, status, body) == [op |-> op, args |-> args, status |-> status, body |-> body]

\* a missing row answered as a fault: .get() in place of .get_or_404()
not_found_as_fault(op, args) == Response(op, args, 500, [error |-> "Internal server error"])

\* @app.errorhandler(404)
not_found(op, args) == Response(op, args, 404, [error |-> "Resource not found"])

IdleSession == [at |-> "idle", op |-> "none", id |-> 0, loaded |-> 0]

\* fetches and likes that returned 200
Writes == SumOver(VideoIds, view_done) + SumOver(VideoIds, like_done)

\* fetches and likes of an existing video begun, finished or not
Started == Writes + Cardinality({w \in Workers : sess[w].at # "idle"})

Init ==
  /\ channels = <<>>
  /\ videos = <<>>
  /\ users = <<>>
  /\ now = 0
  /\ pc = "boot"
  /\ resp = NoResponse
  /\ nticks = 0
  /\ view_done = [v \in VideoIds |-> 0]
  /\ like_done = [v \in VideoIds |-> 0]
  /\ sess = [w \in Workers |-> IdleSession]
  /\ created_in = 0
  /\ time_out = ""

\* time passes
Tick(d) ==
  /\ nticks < MaxTicks
  /\ now' = now + d
  /\ nticks' = nticks + 1
  /\ UNCHANGED <<channels, videos, users, pc, resp, view_done, like_done, sess,
                 created_in, time_out>>

\* init_sample_data without the check that data already exists
init_sample_data_unchecked ==
  /\ pc = "boot"
  /\ channels' = [i \in 1..NumChannels |-> ChannelRow(i, now)]
  /\ videos' = [i \in 1..NumVideos |-> VideoRow(i, now)]
  /\ pc' = "serving"
  /\ UNCHANGED <<users, now, resp, nticks, view_done, like_done, sess, created_in, time_out>>

\* init_sample_data(), run by __main__ before app.run()
init_sample_data ==
  /\ pc = "boot"
  /\ IF channels # <<>>
       THEN UNCHANGED <<channels, videos>>
       ELSE /\ channels' = [i \in 1..NumChannels |-> ChannelRow(i, now)]
            /\ videos' = [i \in 1..NumVideos |-> VideoRow(i, now)]
  /\ pc' = "serving"
  /\ UNCHANGED <<users, now, resp, nticks, view_done, like_done, sess, created_in, time_out>>

\* app.run() returns: the process ends; the store file stays
Stop ==
  /\ pc = "serving"
  /\ pc' = "boot"
  /\ resp' = NoResponse
  /\ sess' = [w \in Workers |-> IdleSession]
  /\ UNCHANGED <<channels, videos, users, now, nticks, view_done, like_done,
                 created_in, time_out>>

-----------------------------------------------------------------------------
(* API routes, one request at a time *)

ReadOnly == UNCHANGED <<channels, videos, users, now, pc, nticks, view_done, like_done,
                        sess, created_in, time_out>>

\* get_videos counting a view for every video it lists
get_videos_counting_views(category, search, Pg, Pp) ==
  /\ pc = "serving"
  /\ LET ids == ListFilter(category, search)
     IN  \E ordered \in OrderByDesc(ids, created_at_of) :
         \E page \in Pg, per_page \in Pp :
           LET pg == Paginate(ordered, page, per_page)
           IN  /\ videos' = [v \in DOMAIN videos |->
                               IF \E k \in 1..Len(pg.items) : pg.items[k] = v
                                 THEN [videos[v] EXCEPT !.views = @ + 1]
                                 ELSE videos[v]]
               /\ resp' = Response("get_videos", <<category, search, page, per_page>>, 200,
                                   [videos       |-> VideoDicts(pg.items),
                                    total        |-> pg.total,
                                    pages        |-> pg.pages,
                                    current_page |-> pg.page,
                                    has_next     |-> pg.has_next,
                                    has_prev     |-> pg.has_prev])
  /\ UNCHANGED <<channels, users, now, pc, nticks, view_done, like_done, sess,
                 created_in, time_out>>

\* GET /api/videos, with page and per_page drawn from Pg and Pp
get_videos(category, search, Pg, Pp) ==
  /\ pc = "serving"
  /\ LET ids == ListFilter(category, search)
     IN  \E ordered \in OrderByDesc(ids, created_at_of) :
         \E page \in Pg, per_page \in Pp :
           LET pg == Paginate(ordered, page, per_page)
           IN  resp' = Response("get_videos", <<category, search, page, per_page>>, 200,
                                [videos       |-> VideoDicts(pg.items),
                                 total        |-> pg.total,
                                 pages        |-> pg.pages,
                                 current_page |-> pg.page,
                                 has_next     |-> pg.has_next,
                                 has_prev     |-> pg.has_prev])
  /\ ReadOnly

\* get_video counting one view per video: the deduplication the handler does not do
get_video_deduplicated(video_id) ==
  /\ pc = "serving"
  /\ IF video_id \notin DOMAIN videos
       THEN /\ resp' = not_found("get_video", <<video_id>>)
            /\ UNCHANGED <<videos, view_done>>
       ELSE /\ Writes < MaxWrites
            /\ videos' = IF view_done[video_id] = 0
                            THEN [videos EXCEPT ![video_id].views = @ + 1]
                            ELSE videos
            /\ resp' = Response("get_video", <<video_id>>, 200,
                                VideoDictOf(videos', channels, video_id, now))
            /\ view_done' = [view_done EXCEPT ![video_id] = @ + 1]
  /\ UNCHANGED <<channels, users, now, pc, nticks, like_done, sess, created_in, time_out>>

\* GET /api/videos/<int:video_id>
get_video(video_id) ==
  /\ pc = "serving"
  /\ IF video_id \notin DOMAIN videos
       THEN /\ resp' = not_found("get_video", <<video_id>>)
            /\ UNCHANGED <<videos, view_done>>
       ELSE /\ Writes < MaxWrites
            /\ videos' = [videos EXCEPT ![video_id].views = @ + 1]
            /\ resp' = Response("get_video", <<video_id>>, 200,
                                VideoDictOf(videos', channels, video_id, now))
            /\ view_done' = [view_done EXCEPT ![video_id] = @ + 1]
  /\ UNCHANGED <<channels, users, now, pc, nticks, like_done, sess, created_in, time_out>>

\* like_video answering with the like count it loaded, not the one it stored
like_video_stale_count(video_id) ==
  /\ pc = "serving"
  /\ IF video_id \notin DOMAIN videos
       THEN /\ resp' = not_found("like_video", <<video_id>>)
            /\ UNCHANGED <<videos, like_done>>
       ELSE /\ Writes < MaxWrites
            /\ videos' = [videos EXCEPT ![video_id].likes = @ + 1]
            /\ resp' = Response("like_video", <<video_id>>, 200,
                                [success  |-> TRUE,
                                 likes    |-> videos[video_id].likes,
                                 video_id |-> video_id])
            /\ like_done' = [like_done EXCEPT ![video_id] = @ + 1]
  /\ UNCHANGED <<channels, users, now, pc, nticks, view_done, sess, created_in, time_out>>

\* like_video as a vote: a second like of a video takes the first one back
like_video_toggle(video_id) ==
  /\ pc = "serving"
  /\ IF video_id \notin DOMAIN videos
       THEN /\ resp' = not_found("like_video", <<video_id>>)
            /\ UNCHANGED <<videos, like_done>>
       ELSE /\ Writes < MaxWrites
            /\ videos' = [videos EXCEPT ![video_id].likes =
                            IF like_done[video_id] % 2 = 0 THEN @ + 1 ELSE @ - 1]
            /\ resp' = Response("like_video", <<video_id>>, 200,
                                [success  |-> TRUE,
                                 likes    |-> videos'[video_id].likes,
                                 video_id |-> video_id])
            /\ like_done' = [like_done EXCEPT ![video_id] = @ + 1]
  /\ UNCHANGED <<channels, users, now, pc, nticks, view_done, sess, created_in, time_out>>

\* POST /api/videos/<int:video_id>/like
like_video(video_id) ==
  /\ pc = "serving"
  /\ IF video_id \notin DOMAIN videos
       THEN /\ resp' = not_found("like_video", <<video_id>>)
            /\ UNCHANGED <<videos, like_done>>
       ELSE /\ Writes < MaxWrites
            /\ videos' = [videos EXCEPT ![video_id].likes = @ + 1]
            /\ resp' = Response("like_video", <<video_id>>, 200,
                                [success  |-> TRUE,
                                 likes    |-> videos'[video_id].likes,
                                 video_id |-> video_id])
            /\ like_done' = [like_done EXCEPT ![video_id] = @ + 1]
  /\ UNCHANGED <<channels, users, now, pc, nticks, view_done, sess, created_in, time_out>>

\* GET /api/channels
get_channels ==
  /\ pc = "serving"
  /\ resp' = Response("get_channels", <<>>, 200,
                      [channels |-> [c \in DOMAIN channels |-> ChannelDict(c)]])
  /\ ReadOnly

\* GET /api/categories
get_categories ==
  /\ pc = "serving"
  /\ LET category_list == {videos[v].category : v \in DOMAIN videos} \ {""}
     IN  resp' = Response("get_categories", <<>>, 200,
                          [categories |-> <<"All">> \o Sorted(category_list)])
  /\ ReadOnly

\* GET /api/trending
get_trending ==
  /\ pc = "serving"
  /\ \E ordered \in OrderByDesc(TrendingFilter(now), views_of) :
       resp' = Response("get_trending", <<>>, 200,
                        [videos |-> VideoDicts(Limit(ordered, 20))])
  /\ ReadOnly

\* GET /api/search?q=
search_videos(q) ==
  /\ pc = "serving"
  /\ LET query == Strip(q)
     IN  IF query = <<>>
           THEN resp' = Response("search_videos", <<q>>, 200, [videos |-> <<>>])
           ELSE \E ordered \in OrderByDesc(SearchFilter(query), views_of) :
                  resp' = Response("search_videos", <<q>>, 200,
                                   [videos |-> VideoDicts(ordered)])
  /\ ReadOnly

\* GET /api/stats
get_stats ==
  /\ pc = "serving"
  /\ LET total_views == SumOver(DOMAIN videos, views_of)
         total_likes == SumOver(DOMAIN videos, likes_of)
     IN  resp' = Response("get_stats", <<>>, 200,
                          [total_videos          |-> Cardinality(DOMAIN videos),
                           total_channels        |-> Cardinality(DOMAIN channels),
                           total_views           |-> total_views,
                           total_views_formatted |-> format_views(total_views),
                           total_likes           |-> total_likes,
                           total_likes_formatted |-> format_views(total_likes)])
  /\ ReadOnly

\* GET /api/health
health_check ==
  /\ pc = "serving"
  /\ resp' = Response("health_check", <<>>, 200,
                      [status |-> "healthy", timestamp |-> now, database |-> "connected"])
  /\ ReadOnly

-----------------------------------------------------------------------------
(* get_video and like_video of concurrent workers, statement by statement.  Each
   request has its own session.  get_or_404 SELECTs the row into the session;
   "+= 1" computes the loaded value + 1 in the application; commit() sends
   UPDATE video SET <column> = <that value> and COMMIT; building the response
   reloads the expired row. *)

\* Video.query.get_or_404(video_id)
Load(w, op, video_id) ==
  /\ pc = "serving"
  /\ sess[w].at = "idle"
  /\ IF video_id \notin DOMAIN videos
       THEN /\ resp' = not_found(op, <<video_id>>)
            /\ UNCHANGED sess
       ELSE /\ Started < MaxConcWrites
            /\ sess' = [sess EXCEPT ![w] =
                 [at |-> "loaded", op |-> op, id |-> video_id,
                  loaded |-> IF op = "get_video" THEN videos[video_id].views
                                                 ELSE videos[video_id].likes]]
            /\ UNCHANGED resp
  /\ UNCHANGED <<channels, videos, users, now, pc, nticks, view_done, like_done,
                 created_in, time_out>>

\* video.views += 1 (video.likes += 1); db.session.commit()
Commit(w) ==
  /\ sess[w].at = "loaded"
  /\ videos' = IF sess[w].op = "get_video"
                 THEN [videos EXCEPT ![sess[w].id].views = sess[w].loaded + 1]
                 ELSE [videos EXCEPT ![sess[w].id].likes = sess[w].loaded + 1]
  /\ sess' = [sess EXCEPT ![w].at = "committed"]
  /\ UNCHANGED <<channels, users, now, pc, resp, nticks, view_done, like_done,
                 created_in, time_out>>

\* return jsonify(...): the row is read again
Respond(w) ==
  /\ sess[w].at = "committed"
  /\ IF sess[w].op = "get_video"
       THEN /\ resp' = Response("get_video", <<sess[w].id>>, 200, VideoDict(sess[w].id))
            /\ view_done' = [view_done EXCEPT ![sess[w].id] = @ + 1]
            /\ UNCHANGED like_done
       ELSE /\ resp' = Response("like_video", <<sess[w].id>>, 200,
                                [success  |-> TRUE,
                                 likes    |-> videos[sess[w].id].likes,
                                 video_id |-> sess[w].id])
            /\ like_done' = [like_done EXCEPT ![sess[w].id] = @ + 1]
            /\ UNCHANGED view_done
  /\ sess' = [sess EXCEPT ![w] = IdleSession]
  /\ UNCHANGED <<channels, videos, users, now, pc, nticks, created_in, time_out>>

-----------------------------------------------------------------------------
(* format_time_ago on its own *)

InitFmt ==
  /\ channels = <<>>
  /\ videos = <<>>
  /\ users = <<>>
  /\ now \in {0, 1700000000}
  /\ pc = "boot"
  /\ resp = NoResponse
  /\ nticks = 0
  /\ view_done = [v \in VideoIds |-> 0]
  /\ like_done = [v \in VideoIds |-> 0]
  /\ sess = [w \in Workers |-> IdleSession]
  /\ created_in \in {now - (d * Day + s) : d \in 0..MaxAgeDays, s \in AgeSeconds}
  /\ time_out = ""

FormatTimeAgo ==
  /\ time_out = ""
  /\ time_out' = format_time_ago(created_in, now)
  /\ UNCHANGED <<channels, videos, users, now, pc, resp, nticks, view_done, like_done,
                 sess, created_in>>

-----------------------------------------------------------------------------
(* Requests *)

\* category= and search= of GET /api/videos; <<>> is the parameter left out or empty
Categories == {<<>>, <<"A","L","L">>, <<"t","e","c","h">>, <<"z","z">>}
Searches == {<<>>, <<"4","_">>}

\* page= and per_page=
MaxPage == 4
Pages == (0 - 1)..MaxPage
PerPages == {0 - 1, 0, 2, 5}

\* q= of GET /api/search
Queries == {<<" ">>, <<" ","t","e","c","h"," ">>}

Next ==
  \/ init_sample_data
  \/ Stop
  \/ \E d \in TickSteps : Tick(d)
  \/ \E category \in {<<>>, <<"t","e","c","h">>} :
       get_videos(category, <<>>, {1, 2}, {2, 20})
  \/ \E video_id \in RequestIds : get_video(video_id)
  \/ \E video_id \in RequestIds : like_video(video_id)
  \/ get_channels
  \/ get_categories
  \/ get_trending
  \/ \E q \in Queries : search_videos(q)
  \/ get_stats
  \/ health_check

Spec == Init /\ [][Next]_vars

\* the listing and the search over the seeded store, with more requests
NextList ==
  \/ init_sample_data
  \/ \E category \in Categories, search \in Searches :
       get_videos(category, search, Pages, PerPages)
  \/ \E q \in {<<>>, <<"p","r","_">>} : search_videos(q)

SpecList == Init /\ [][NextList]_vars

NextConc ==
  \/ init_sample_data
  \/ \E w \in Workers, op \in {"get_video", "like_video"}, video_id \in RequestIds :
       Load(w, op, video_id)
  \/ \E w \in Workers : Commit(w)
  \/ \E w \in Workers : Respond(w)

SpecConc == Init /\ [][NextConc]_vars

NextFmt == FormatTimeAgo

SpecFmt == InitFmt /\ [][NextFmt]_vars

-----------------------------------------------------------------------------
(* Properties *)

SeedViews(v) == videos_data[v].views
SeedLikes(v) == videos_data[v].likes

\* C1: requests handled one after another: after k successful fetches of a video its
\* stored view count is its original value plus k, every fetch counting (no deduplication).
C1_ViewsCountFetches ==
  \A v \in DOMAIN videos : videos[v].views = SeedViews(v) + view_done[v]

\* C1 witness: the second successful fetch of one video has been answered
C1_Witness ==
  /\ resp.op = "get_video" /\ resp.status = 200
  /\ view_done[resp.args[1]] = 2
  /\ resp.body.views = SeedViews(resp.args[1]) + 2

\* C2: requests handled one after another: after m likes of a video its stored like count
\* is its original value plus m, and the "likes" of a like's response is the stored count
\* after the increment.
C2_LikesCountLikes ==
  /\ \A v \in DOMAIN videos : videos[v].likes = SeedLikes(v) + like_done[v]
  /\ (resp.op = "like_video" /\ resp.status = 200)
       => /\ resp.body.likes = videos[resp.args[1]].likes
          /\ resp.body.video_id = resp.args[1]
          /\ resp.body.success

\* C2 witness: the second like of one video has been answered
C2_Witness ==
  /\ resp.op = "like_video" /\ resp.status = 200
  /\ like_done[resp.args[1]] = 2
  /\ resp.body.likes = SeedLikes(resp.args[1]) + 2

\* C3: a fetch or a like of an id that matches no video answers 404 with
\* {"error": "Resource not found"} and changes nothing in the store.
C3_MissingIdIsNotFound ==
  [][\A id \in RequestIds :
       ((get_video(id) \/ like_video(id)) /\ id \notin DOMAIN videos)
         => /\ resp'.status = 404
            /\ resp'.body = [error |-> "Resource not found"]
            /\ channels' = channels /\ videos' = videos /\ users' = users]_vars

\* C3 witness: a like of a missing id was answered 404, in a store whose counters have moved
C3_Witness ==
  /\ resp.op = "like_video" /\ resp.status = 404
  /\ resp.args[1] \notin DOMAIN videos
  /\ Writes > 0

\* C4: counts of every video are >= 0 in every reachable state, and no step of the
\* requests handled one after another lowers a view, like or dislike count.
C4_CountsNonNegativeMonotone ==
  /\ [](\A v \in DOMAIN videos :
          videos[v].views >= 0 /\ videos[v].likes >= 0 /\ videos[v].dislikes >= 0)
  /\ [][\A v \in DOMAIN videos :
          /\ v \in DOMAIN videos'
          /\ videos'[v].views >= videos[v].views
          /\ videos'[v].likes >= videos[v].likes
          /\ videos'[v].dislikes >= videos[v].dislikes]_vars

\* C4 witness: a video that has been fetched and liked
C4_Witness ==
  \E v \in DOMAIN videos :
    /\ videos[v].views > SeedViews(v)
    /\ videos[v].likes > SeedLikes(v)

\* C5: a run of the seeder on a store that holds a channel creates nothing and changes
\* nothing, whatever the counters have become since the first run.
C5_SeedingIsIdempotent ==
  [][(init_sample_data /\ channels # <<>>)
       => (channels' = channels /\ videos' = videos /\ users' = users)]_vars

\* C5 witness: the process was started again, and the seeder run, on a store whose
\* counters had been incremented
C5_Witness ==
  /\ pc = "serving" /\ resp = NoResponse
  /\ channels # <<>>
  /\ \E v \in DOMAIN videos : videos[v].views > SeedViews(v)

ReadOps == {"get_videos", "get_channels", "get_categories", "get_trending",
            "search_videos", "get_stats", "health_check"}

\* the request answered by this step was op
Answered(op) == resp' # resp /\ resp'.op = op

\* C6: a fetch changes only the views of its video, by +1; a like only the likes of its
\* video, by +1; the other requests change nothing in the store; and two GET /api/channels
\* (or /api/categories) with no write between them answer the same.
C6_OnlyCounterWrites ==
  [][/\ \A id \in RequestIds :
          (get_video(id) /\ id \in DOMAIN videos)
            => /\ videos' = [videos EXCEPT ![id].views = videos[id].views + 1]
               /\ channels' = channels /\ users' = users
     /\ \A id \in RequestIds :
          (like_video(id) /\ id \in DOMAIN videos)
            => /\ videos' = [videos EXCEPT ![id].likes = videos[id].likes + 1]
               /\ channels' = channels /\ users' = users
     /\ (\E op \in ReadOps : Answered(op))
          => (channels' = channels /\ videos' = videos /\ users' = users)
     /\ (resp.op = resp'.op /\ resp.op \in {"get_channels", "get_categories"})
          => resp'.body = resp.body]_vars

\* C6 witness: the channels were listed after two writes
C6_Witness ==
  /\ resp.op = "get_channels"
  /\ Writes >= 2
  /\ Len(resp.body.channels) = NumChannels

\* the relative time of an age of `diff` seconds by the documented thresholds: whole days
\* first, then an age of at least an hour in hours, of at least a minute in minutes
ClaimedTimeAgo(diff) ==
  LET days == diff \div Day
  IN  IF days > 365 THEN Ago(days \div 365, "year")
      ELSE IF days > 30 THEN Ago(days \div 30, "month")
      ELSE IF days > 7 THEN Ago(days \div 7, "week")
      ELSE IF days > 0 THEN Ago(days, "day")
      ELSE IF diff >= 3600 THEN Ago(diff \div 3600, "hour")
      ELSE IF diff >= 60 THEN Ago(diff \div 60, "minute")
      ELSE "Just now"

\* C7 as stated: for every non-negative age format_time_ago answers by the documented
\* thresholds; an age of exactly one hour is "1 hour ago", of exactly one minute
\* "1 minute ago".
C7_BucketsAsDocumented ==
  (time_out # "") => time_out = ClaimedTimeAgo(now - created_in)

\* C7 amended: every threshold is strict.  With days the whole days of the age and secs
\* the seconds beyond them: days > 365 gives years, 30 < days <= 365 months,
\* 7 < days <= 30 weeks, 0 < days <= 7 days; within the first day secs > 3600 gives hours,
\* 60 < secs <= 3600 minutes and secs <= 60 "Just now"; "s" is appended when the count
\* is above 1.  An age of exactly one hour is "60 minutes ago", of exactly one minute
\* "Just now".
C7_StrictThresholds ==
  (time_out # "")
    => LET diff == now - created_in
           days == diff \div Day
           secs == diff % Day
       IN  /\ days > 365 => time_out = Ago(days \div 365, "year")
           /\ (30 < days /\ days <= 365) => time_out = Ago(days \div 30, "month")
           /\ (7 < days /\ days <= 30) => time_out = Ago(days \div 7, "week")
           /\ (0 < days /\ days <= 7) => time_out = Ago(days, "day")
           /\ (days = 0 /\ secs > 3600) => time_out = Ago(secs \div 3600, "hour")
           /\ (days = 0 /\ 60 < secs /\ secs <= 3600)
                => time_out = Ago(secs \div 60, "minute")
           /\ (days = 0 /\ secs <= 60) => time_out = "Just now"
           /\ diff = 3600 => time_out = "60 minutes ago"
           /\ diff = 3601 => time_out = "1 hour ago"
           /\ diff = 7200 => time_out = "2 hours ago"
           /\ diff = 60 => time_out = "Just now"
           /\ diff = 90 => time_out = "1 minute ago"
           /\ diff = 120 => time_out = "2 minutes ago"
           /\ diff = 0 => time_out = "Just now"
           /\ diff = Day => time_out = "1 day ago"
           /\ diff = 7 * Day => time_out = "7 days ago"
           /\ diff = 10 * Day => time_out = "1 week ago"
           /\ diff = 365 * Day => time_out = "12 months ago"
           /\ diff = 400 * Day => time_out = "1 year ago"
           /\ diff = 730 * Day => time_out = "2 years ago"

\* C7 witness: an age of exactly one hour was formatted
C7_Witness ==
  /\ now - created_in = 3600
  /\ time_out = "60 minutes ago"

\* the ids of the videos of a response
Ids(dicts) == [k \in 1..Len(dicts) |-> dicts[k].id]

\* rows is a slice of the videos of S by creation time, newest first, that starts
\* after the first `skip` of them and holds up to `size`
IsSliceNewestFirst(rows, S, skip, size) ==
  /\ Len(rows) = IF Cardinality(S) - skip < 0 THEN 0 ELSE Min(size, Cardinality(S) - skip)
  /\ \A k \in 1..Len(rows) : rows[k] \in S
  /\ \A k \in 1..Len(rows) :
       /\ Cardinality({w \in S : videos[w].created_at > videos[rows[k]].created_at})
            <= skip + k - 1
       /\ Cardinality({w \in S : videos[w].created_at >= videos[rows[k]].created_at})
            >= skip + k
  /\ \A j, k \in 1..Len(rows) : j # k => rows[j] # rows[k]

\* C8 as stated: a page outside 1..pages (above the last page, zero or negative) gives
\* no items, a page inside it the slice of the matching videos, newest first, and total
\* is the number of matching videos.
C8_OutOfRangePageIsEmpty ==
  (resp.op = "get_videos")
    => LET page     == resp.args[3]
           per_page == resp.args[4]
           S        == ListFilter(resp.args[1], resp.args[2])
       IN  /\ resp.status = 200
           /\ resp.body.total = Cardinality(S)
           /\ page \notin 1..resp.body.pages => resp.body.videos = <<>>
           /\ page \in 1..resp.body.pages
                => IsSliceNewestFirst(Ids(resp.body.videos), S,
                                      (page - 1) * per_page, per_page)

\* C8 amended: a page below 1 is answered as page 1 and a per_page below 1 as 20; a page
\* above the last page gives no items; otherwise the items are that page's slice of the
\* matching videos, newest first; total is the number of matching videos.
C8_PageSlices ==
  (resp.op = "get_videos")
    => LET page     == IF resp.args[3] < 1 THEN 1 ELSE resp.args[3]
           per_page == IF resp.args[4] < 1 THEN 20 ELSE resp.args[4]
           S        == ListFilter(resp.args[1], resp.args[2])
       IN  /\ resp.status = 200
           /\ resp.body.total = Cardinality(S)
           /\ resp.body.pages * per_page >= Cardinality(S)
           /\ (resp.body.pages - 1) * per_page < Cardinality(S) \/ resp.body.pages = 0
           /\ page > resp.body.pages => resp.body.videos = <<>>
           /\ page <= resp.body.pages
                => /\ resp.body.videos # <<>>
                   /\ IsSliceNewestFirst(Ids(resp.body.videos), S,
                                         (page - 1) * per_page, per_page)

\* C8 witness: page 0 of a filtered listing answered with the first videos
C8_Witness ==
  /\ resp.op = "get_videos"
  /\ resp.args[1] # <<>> /\ resp.args[3] = 0 /\ resp.args[4] = 2
  /\ Len(resp.body.videos) = 2
  /\ resp.body.pages = 2

\* C9: every answer of GET /api/trending holds at most 20 videos, each created within
\* the 7 days before the call, ordered by view count from high to low; it is empty when
\* no video is that recent.
C9_TrendingRecentByViews ==
  [][get_trending
       => LET items == resp'.body.videos
          IN  /\ Len(items) <= 20
              /\ \A k \in 1..Len(items) :
                   /\ items[k].id \in DOMAIN videos
                   /\ items[k].views = videos[items[k].id].views
                   /\ now - videos[items[k].id].created_at <= 7 * Day
              /\ \A j, k \in 1..Len(items) : j < k => items[j].views >= items[k].views
              /\ (\A v \in DOMAIN videos : now - videos[v].created_at > 7 * Day)
                   => items = <<>>]_vars

\* C9 witness: a trending answer four days after seeding, after a fetch: the four videos
\* that were at most three days old, the older ones left out
C9_Witness ==
  /\ resp.op = "get_trending"
  /\ Len(resp.body.videos) = 4
  /\ nticks = 1
  /\ \E v \in DOMAIN videos : videos[v].views > SeedViews(v)

\* increments of the views of v that have been committed
CommittedViews(v) ==
  view_done[v]
    + Cardinality({w \in Workers : sess[w].at = "committed" /\ sess[w].op = "get_video"
                                     /\ sess[w].id = v})

CommittedLikes(v) ==
  like_done[v]
    + Cardinality({w \in Workers : sess[w].at = "committed" /\ sess[w].op = "like_video"
                                     /\ sess[w].id = v})

\* C10: with concurrent writers a counter never decreases and never exceeds its original
\* value plus the number of completed increments.
C10_NeverDecreasesNorExceeds ==
  /\ [](\A v \in DOMAIN videos :
          /\ videos[v].views <= SeedViews(v) + CommittedViews(v)
          /\ videos[v].likes <= SeedLikes(v) + CommittedLikes(v))
  /\ [][\A v \in DOMAIN videos :
          /\ v \in DOMAIN videos'
          /\ videos'[v].views >= videos[v].views
          /\ videos'[v].likes >= videos[v].likes]_vars

\* C10, the lost update: two fetches of one video both answered 200, no request in
\* flight, and the stored views one above the original
C10_LostUpdate ==
  \E v \in DOMAIN videos :
    /\ view_done[v] = 2
    /\ \A w \in Workers : sess[w].at = "idle"
    /\ videos[v].views = SeedViews(v) + 1

\* C10, the bounds that do hold: a counter stays between its original value and the
\* original value plus the committed increments
C10_WithinBounds ==
  \A v \in DOMAIN videos :
    /\ SeedViews(v) <= videos[v].views
    /\ videos[v].views <= SeedViews(v) + CommittedViews(v)
    /\ SeedLikes(v) <= videos[v].likes
    /\ videos[v].likes <= SeedLikes(v) + CommittedLikes(v)

====
